---------------------------- MODULE Spec2Model ----------------------------
(***************************************************************************)
(* Model of the Telegram control bots of claude-code-telegram-control.     *)
(*                                                                         *)
(*   bot.py     the authorised bot: task artifacts, the current-status     *)
(*              artifact and the APPROVAL / RESPONSE approval gate.        *)
(*   bot_v3.py  the dual-mode bot: the per-chat execution mode and the     *)
(*              dispatch of a task to the local or the cloud backend.      *)
(*                                                                         *)
(* Five specifications share the variables:                                *)
(*   Spec        bot.py serving any sequence of commands, with the agent   *)
(*               that opens and polls the gate as its environment;         *)
(*   SpecCreate  bot.py's /task handler applied to one request drawn from  *)
(*               the whole bounded set of argument lists;                  *)
(*   SpecV3      bot_v3.py serving any sequence of commands;               *)
(*   SpecStart   either program started with any subset of its settings;   *)
(*   SpecDispatch  bot_v3.py's /task handler with every answer of the POST.  *)
(***************************************************************************)
EXTENDS Integers, Sequences, FiniteSets, TLC

VARIABLES
    \* ---- bot.py: the filesystem artifacts
    approvalExists,   \* APPROVAL_FILE exists (the gate is open)
    response,         \* content of RESPONSE_FILE, or "absent"
    tasks,            \* TASKS_DIR: timestamp of the file name -> content
    statusFile,       \* content of STATUS_FILE, or NoStatus
    \* ---- bot.py: the process
    pc,               \* position of the running approve/reject handler
    decision,         \* what the running approve/reject handler writes
    reply,            \* the last reply sent to a requester
    \* ---- environment of bot.py
    clock,            \* datetime.now(), at the resolution of the file name
    gateOwner,        \* the agent that opened the gate last (0: nobody)
    gateResult,       \* the outcome of the last request_approval
    gateWrites,       \* RESPONSE writes since the gate was opened last
    faults,           \* filesystem failures injected into approve/reject
    \* ---- SpecCreate: the one request served
    req,              \* [user, args, io], drawn by InitCreate
    served,           \* the request has been handled
    \* ---- bot_v3.py
    user_execution_mode,  \* chat id -> "local" | "cloud" | "unset" (no key)
    agentLive,        \* a process matching the agent signature is running
    exchangeFile,     \* content of pending_task.txt, or "absent"
    cloudCalls,       \* payloads POSTed to the dispatches endpoint
    githubToken,      \* GITHUB_TOKEN is set
    lastMode,         \* the resolution task_command made last: [chat, mode, live]
    replyV3,          \* the last reply bot_v3 sent
    modeSetting,      \* chat id -> the mode command the chat sent last ("auto": none or /auto)
    lastStored,       \* user_execution_mode of lastMode.chat when lastMode was resolved
    \* ---- start-up of either program
    config,           \* the settings present in the environment
    process           \* "starting" | "bot" | "v3" (serving) | "exited"

botVars == <<approvalExists, response, tasks, statusFile, pc, decision, reply>>
envVars == <<clock, gateOwner, gateResult, gateWrites, faults>>
createVars == <<req, served>>
v3Vars == <<user_execution_mode, agentLive, exchangeFile, cloudCalls,
            githubToken, lastMode, replyV3, modeSetting, lastStored>>
startVars == <<config, process>>
vars == <<botVars, envVars, createVars, v3Vars, startVars>>

(***************************************************************************)
(* Bounds of the model.                                                    *)
(***************************************************************************)
MaxArgs == 3
MaxClock == 2
MaxFaults == 1
MaxCalls == 2

(***************************************************************************)
(* Program constants.                                                      *)
(***************************************************************************)
MAX_TASK_DESCRIPTION_LENGTH == 500
HTTP_NO_CONTENT == 204

\* The requesters (Telegram user / chat ids) and the configured identity.
Users == {1, 2}
AUTHORIZED_USER_ID == "1"

\* str(user_id) for the ids of the model.
Str(n) == CASE n = 1 -> "1" [] n = 2 -> "2" [] OTHER -> "?"

is_authorized(user_id) == Str(user_id) = AUTHORIZED_USER_ID

(***************************************************************************)
(* Text.  A string is a sequence of runs [ch, n]: n copies of character    *)
(* ch.  The characters stand for the classes the code tells apart: a       *)
(* letter, the dot, the space, the two path separators and a character     *)
(* outside the allowed set.                                                *)
(***************************************************************************)
Run(c, k) == [ch |-> c, n |-> k]

AllowedChars == {"a", ".", " "}
Whitespace == {" "}

\* A token of context.args: the message text split on whitespace, so a token
\* is non-empty and holds no whitespace.
TokenRuns ==
    {Run("a", k) : k \in {1, MAX_TASK_DESCRIPTION_LENGTH - 2,
                          MAX_TASK_DESCRIPTION_LENGTH,
                          MAX_TASK_DESCRIPTION_LENGTH + 1}}
    \cup {Run(".", k) : k \in {1, 2}}
    \cup {Run(c, 1) : c \in {"/", "\\", ";"}}

SeqsUpTo(S, k) == UNION {[1..m -> S] : m \in 0..k}

\* context.args of a /task message.
TaskArgs == SeqsUpTo(TokenRuns, MaxArgs)

\* The argument lists the long-running specifications send: at most one
\* token, of one character.
SampleArgs == {<<>>} \cup {<<Run(c, 1)>> : c \in {"a", ".", "/", "\\", ";"}}

\* ' '.join(context.args)
RECURSIVE Join(_)
Join(args) ==
    IF Len(args) = 0 THEN <<>>
    ELSE IF Len(args) = 1 THEN <<args[1]>>
    ELSE <<args[1], Run(" ", 1)>> \o Join(Tail(args))

\* len(description)
RECURSIVE Length(_)
Length(d) == IF d = <<>> THEN 0 ELSE d[1].n + Length(Tail(d))

\* description.strip()
RECURSIVE LStrip(_)
LStrip(d) ==
    IF d # <<>> /\ d[1].ch \in Whitespace THEN LStrip(Tail(d)) ELSE d

RECURSIVE RStrip(_)
RStrip(d) ==
    IF d # <<>> /\ d[Len(d)].ch \in Whitespace
    THEN RStrip(SubSeq(d, 1, Len(d) - 1))
    ELSE d

Strip(d) == RStrip(LStrip(d))

\* ALLOWED_TASK_CHARS.match(description): one or more allowed characters.
MatchesAllowed(d) == d # <<>> /\ \A i \in 1..Len(d) : d[i].ch \in AllowedChars

\* c in description
Contains(d, c) == \E i \in 1..Len(d) : d[i].ch = c

\* '..' in description
ContainsDotDot(d) ==
    \E i \in 1..Len(d) :
        /\ d[i].ch = "."
        /\ \/ d[i].n >= 2
           \/ i < Len(d) /\ d[i + 1].ch = "."

HasPathSeparator(d) == Contains(d, "/") \/ Contains(d, "\\") \/ ContainsDotDot(d)

\* Mutant: the check for path separators is left out.
sanitize_no_separator_check(raw) ==
    LET description == Strip(raw) IN
    IF Length(description) > MAX_TASK_DESCRIPTION_LENGTH
    THEN [ok |-> FALSE, error |-> "Description too long", value |-> <<>>]
    ELSE IF ~MatchesAllowed(description)
    THEN [ok |-> FALSE, error |-> "Description contains forbidden characters", value |-> <<>>]
    ELSE [ok |-> TRUE, error |-> "", value |-> description]

\* Mutant: the length check is off by one (>= for >).
sanitize_length_off_by_one(raw) ==
    LET description == Strip(raw) IN
    IF Length(description) >= MAX_TASK_DESCRIPTION_LENGTH
    THEN [ok |-> FALSE, error |-> "Description too long", value |-> <<>>]
    ELSE IF ~MatchesAllowed(description)
    THEN [ok |-> FALSE, error |-> "Description contains forbidden characters", value |-> <<>>]
    ELSE IF HasPathSeparator(description)
    THEN [ok |-> FALSE, error |-> "Path separators not allowed in description", value |-> <<>>]
    ELSE [ok |-> TRUE, error |-> "", value |-> description]

\* sanitize_task_description: the sanitized text, or the ValueError raised.
sanitize_task_description(raw) ==
    LET description == Strip(raw) IN
    IF Length(description) > MAX_TASK_DESCRIPTION_LENGTH
    THEN [ok |-> FALSE, error |-> "Description too long", value |-> <<>>]
    ELSE IF ~MatchesAllowed(description)
    THEN [ok |-> FALSE, error |-> "Description contains forbidden characters", value |-> <<>>]
    ELSE IF HasPathSeparator(description)
    THEN [ok |-> FALSE, error |-> "Path separators not allowed in description", value |-> <<>>]
    ELSE [ok |-> TRUE, error |-> "", value |-> description]


(***************************************************************************)
(* bot.py: the artifacts.                                                  *)
(***************************************************************************)
\* The file names create_task can give: one per value of the timestamp.
FileNames == 1..MaxClock

\* The content of a task file: the header says pending, then the description.
TaskContent(description) == [description |-> description, status |-> "pending"]

\* The content create_task writes to STATUS_FILE.
StatusContent(description, file) == [task |-> description, file |-> file]

\* A file that does not exist.
NoFile == [description |-> <<>>, status |-> "absent"]
NoStatus == [task |-> <<>>, file |-> 0]

NoTasks == [f \in FileNames |-> NoFile]

\* What a filesystem call of a handler does: it succeeds, or it raises before
\* changing the file.
IoOutcomes == {"ok", "task_write_fails", "status_write_fails"}

\* safe_error_message: the one generic sentence.
GenericError == "An error occurred"

\* Handlers run one at a time: approve and reject hold the process between
\* their write and their unlink (no await in between).
Idle == pc = "idle"

\* start: help for the authorised requester, "Unauthorized" for any other.
start(user) ==
    /\ Idle
    /\ reply' = IF is_authorized(user) THEN "Help" ELSE "Unauthorized"
    /\ UNCHANGED <<approvalExists, response, tasks, statusFile, pc, decision>>
    /\ UNCHANGED envVars
    /\ UNCHANGED <<createVars, v3Vars, startVars>>

ping(user) ==
    /\ Idle
    /\ reply' = IF is_authorized(user) THEN "Pong" ELSE reply
    /\ UNCHANGED <<approvalExists, response, tasks, statusFile, pc, decision>>
    /\ UNCHANGED envVars
    /\ UNCHANGED <<createVars, v3Vars, startVars>>

\* Mutant: the status query consumes the pending approval it reports.
status_removes_approval(user) ==
    /\ Idle
    /\ reply' = IF ~is_authorized(user) THEN reply
                ELSE IF approvalExists THEN "Status, APPROVAL PENDING"
                ELSE "Status"
    /\ approvalExists' = IF is_authorized(user) THEN FALSE ELSE approvalExists
    /\ UNCHANGED <<response, tasks, statusFile, pc, decision>>
    /\ UNCHANGED envVars
    /\ UNCHANGED <<createVars, v3Vars, startVars>>

\* status: the status file's text, and whether an approval is pending.
status(user) ==
    /\ Idle
    /\ reply' = IF ~is_authorized(user) THEN reply
                ELSE IF approvalExists THEN "Status, APPROVAL PENDING"
                ELSE "Status"
    /\ UNCHANGED <<approvalExists, response, tasks, statusFile, pc, decision>>
    /\ UNCHANGED envVars
    /\ UNCHANGED <<createVars, v3Vars, startVars>>

\* Mutant: the status artifact is written before the task artifact.
create_task_status_first(user, args, io) ==
    /\ Idle
    /\ LET s == sanitize_task_description(Join(args))
           file == clock
       IN  IF ~is_authorized(user)
           THEN UNCHANGED <<tasks, statusFile, reply>>
           ELSE IF args = <<>>
           THEN /\ reply' = "Usage"
                /\ UNCHANGED <<tasks, statusFile>>
           ELSE IF ~s.ok
           THEN /\ reply' = s.error
                /\ UNCHANGED <<tasks, statusFile>>
           ELSE IF io = "status_write_fails"
           THEN /\ reply' = GenericError
                /\ UNCHANGED <<tasks, statusFile>>
           ELSE IF io = "task_write_fails"
           THEN /\ statusFile' = StatusContent(s.value, file)
                /\ reply' = GenericError
                /\ UNCHANGED tasks
           ELSE /\ tasks' = [tasks EXCEPT ![file] = TaskContent(s.value)]
                /\ statusFile' = StatusContent(s.value, file)
                /\ reply' = "Task Created"
    /\ UNCHANGED <<approvalExists, response, pc, decision>>
    /\ UNCHANGED envVars
    /\ served' = TRUE
    /\ UNCHANGED <<req, v3Vars, startVars>>

\* create_task: authorise, sanitise, write the task file named by the
\* timestamp, overwrite the status file, reply.
create_task(user, args, io) ==
    /\ Idle
    /\ LET s == sanitize_task_description(Join(args))
           file == clock
       IN  IF ~is_authorized(user)
           THEN UNCHANGED <<tasks, statusFile, reply>>
           ELSE IF args = <<>>
           THEN /\ reply' = "Usage"
                /\ UNCHANGED <<tasks, statusFile>>
           ELSE IF ~s.ok
           THEN /\ reply' = s.error
                /\ UNCHANGED <<tasks, statusFile>>
           ELSE IF io = "task_write_fails"
           THEN /\ reply' = GenericError
                /\ UNCHANGED <<tasks, statusFile>>
           ELSE IF io = "status_write_fails"
           THEN /\ tasks' = [tasks EXCEPT ![file] = TaskContent(s.value)]
                /\ reply' = GenericError
                /\ UNCHANGED statusFile
           ELSE /\ tasks' = [tasks EXCEPT ![file] = TaskContent(s.value)]
                /\ statusFile' = StatusContent(s.value, file)
                /\ reply' = "Task Created"
    /\ UNCHANGED <<approvalExists, response, pc, decision>>
    /\ UNCHANGED envVars
    /\ served' = TRUE
    /\ UNCHANGED <<req, v3Vars, startVars>>

\* Mutant: APPROVAL_FILE.exists() is not tested.
resolve_begin_no_exists_check(user, value) ==
    /\ Idle
    /\ IF ~is_authorized(user)
       THEN UNCHANGED <<pc, decision, reply>>
       ELSE /\ pc' = "write"
            /\ decision' = value
            /\ UNCHANGED reply
    /\ UNCHANGED <<approvalExists, response, tasks, statusFile>>
    /\ UNCHANGED envVars
    /\ UNCHANGED <<createVars, v3Vars, startVars>>

\* approve / reject up to the write: the authorisation and the test of
\* APPROVAL_FILE.exists().
resolve_begin(user, value) ==
    /\ Idle
    /\ IF ~is_authorized(user)
       THEN UNCHANGED <<pc, decision, reply>>
       ELSE IF ~approvalExists
       THEN /\ reply' = "No pending approvals"
            /\ UNCHANGED <<pc, decision>>
       ELSE /\ pc' = "write"
            /\ decision' = value
            /\ UNCHANGED reply
    /\ UNCHANGED <<approvalExists, response, tasks, statusFile>>
    /\ UNCHANGED envVars
    /\ UNCHANGED <<createVars, v3Vars, startVars>>

approve(user) == resolve_begin(user, "APPROVED")

reject(user) == resolve_begin(user, "REJECTED")

\* Mutant: the handler goes on to the unlink when the write raised.
resolve_write_ignores_failure(ok) ==
    /\ pc = "write"
    /\ ok \/ faults < MaxFaults
    /\ IF ok
       THEN /\ response' = decision
            /\ gateWrites' = gateWrites + 1
            /\ pc' = "unlink"
            /\ UNCHANGED <<decision, reply, faults>>
       ELSE /\ faults' = faults + 1
            /\ pc' = "unlink"
            /\ UNCHANGED <<decision, reply, response, gateWrites>>
    /\ UNCHANGED <<approvalExists, tasks, statusFile>>
    /\ UNCHANGED <<clock, gateOwner, gateResult>>
    /\ UNCHANGED <<createVars, v3Vars, startVars>>

\* RESPONSE_FILE.write_text(decision); an exception ends the handler with the
\* generic error.
resolve_write(ok) ==
    /\ pc = "write"
    /\ ok \/ faults < MaxFaults
    /\ IF ok
       THEN /\ response' = decision
            /\ gateWrites' = gateWrites + 1
            /\ pc' = "unlink"
            /\ UNCHANGED <<decision, reply, faults>>
       ELSE /\ faults' = faults + 1
            /\ pc' = "idle"
            /\ decision' = "none"
            /\ reply' = GenericError
            /\ UNCHANGED <<response, gateWrites>>
    /\ UNCHANGED <<approvalExists, tasks, statusFile>>
    /\ UNCHANGED <<clock, gateOwner, gateResult>>
    /\ UNCHANGED <<createVars, v3Vars, startVars>>

\* APPROVAL_FILE.unlink(), then the reply; an exception ends the handler with
\* the generic error and leaves RESPONSE written.
resolve_unlink(ok) ==
    /\ pc = "unlink"
    /\ ok \/ faults < MaxFaults
    /\ IF ok /\ approvalExists
       THEN /\ approvalExists' = FALSE
            /\ reply' = decision
            /\ UNCHANGED faults
       ELSE /\ faults' = IF ok THEN faults ELSE faults + 1
            /\ reply' = GenericError
            /\ UNCHANGED approvalExists
    /\ pc' = "idle"
    /\ decision' = "none"
    /\ UNCHANGED <<response, tasks, statusFile>>
    /\ UNCHANGED <<clock, gateOwner, gateResult, gateWrites>>
    /\ UNCHANGED <<createVars, v3Vars, startVars>>

(***************************************************************************)
(* The environment of bot.py: the agent side of the gate, and time.        *)
(***************************************************************************)
Agents == {1, 2}

ResolutionValues == {"APPROVED", "REJECTED"}

\* Mutant: the gate is opened whether or not one is open.
request_approval_no_conflict(agent) ==
    /\ approvalExists' = TRUE
    /\ gateOwner' = agent
    /\ gateWrites' = 0
    /\ gateResult' = "opened"
    /\ UNCHANGED <<response, tasks, statusFile, pc, decision, reply>>
    /\ UNCHANGED <<clock, faults>>
    /\ UNCHANGED <<createVars, v3Vars, startVars>>

\* request_approval: open the gate, or ConflictError when one is open.
request_approval(agent) ==
    /\ IF approvalExists
       THEN /\ gateResult' = "ConflictError"
            /\ UNCHANGED <<approvalExists, gateOwner, gateWrites>>
       ELSE /\ approvalExists' = TRUE
            /\ gateOwner' = agent
            /\ gateWrites' = 0
            /\ gateResult' = "opened"
    /\ UNCHANGED <<response, tasks, statusFile, pc, decision, reply>>
    /\ UNCHANGED <<clock, faults>>
    /\ UNCHANGED <<createVars, v3Vars, startVars>>

\* poll: the waiting agent reads the decision and takes it, once.
poll ==
    /\ response \in ResolutionValues
    /\ response' = "absent"
    /\ UNCHANGED <<approvalExists, tasks, statusFile, pc, decision, reply>>
    /\ UNCHANGED envVars
    /\ UNCHANGED <<createVars, v3Vars, startVars>>

\* datetime.now() moves on.
Tick ==
    /\ clock < MaxClock
    /\ clock' = clock + 1
    /\ UNCHANGED botVars
    /\ UNCHANGED <<gateOwner, gateResult, gateWrites, faults>>
    /\ UNCHANGED <<createVars, v3Vars, startVars>>

(***************************************************************************)
(* bot_v3.py: execution mode and dispatch.  It holds no authorised         *)
(* identity: every handler serves the chat id it is given.                 *)
(***************************************************************************)
Chats == Users

\* The argument lists sent to bot_v3: none, a plain word, a path separator.
V3Args == {<<>>} \cup {<<Run(c, 1)>> : c \in {"a", "/"}}

\* What requests.post does: a response with a status code, or an exception.
HttpOutcomes == {"204", "404", "exception"}

\* The same with a success status other than 204.
HttpAnswers == HttpOutcomes \cup {"200"}

StatusCode(http) ==
    CASE http = "204" -> 204
      [] http = "200" -> 200
      [] OTHER -> 404

NoExchange == <<Run("absent", 0)>>

NoResolution == [chat |-> 0, mode |-> "none", live |-> FALSE]

\* detect_execution_mode: "local" when a process matches the agent signature.
detect_execution_mode == IF agentLive THEN "local" ELSE "cloud"

\* Mutant: the stored mode is ignored.
ModeGet_ignores_override(chat_id, default) == default

\* user_execution_mode.get(chat_id, default)
ModeGet(chat_id, default) ==
    IF user_execution_mode[chat_id] = "unset" THEN default
    ELSE user_execution_mode[chat_id]

\* Mutant: every response counts as success, whatever its status code.
trigger_github_actions_any_response(chat_id, task_description, http) ==
    [called |-> githubToken,
     success |-> githubToken /\ http # "exception",
     payload |-> [task |-> task_description, chat_id |-> Str(chat_id)]]

\* trigger_github_actions: no call without the token; else one POST, which
\* succeeds on status 204 alone.
trigger_github_actions(chat_id, task_description, http) ==
    [called |-> githubToken,
     success |-> /\ githubToken
                 /\ http # "exception"
                 /\ StatusCode(http) = HTTP_NO_CONTENT,
     payload |-> [task |-> task_description, chat_id |-> Str(chat_id)]]

\* trigger_local_execution: write the description to the exchange file.
trigger_local_execution(task_description, ioOk) ==
    [success |-> ioOk,
     file |-> IF ioOk THEN task_description ELSE exchangeFile]

start_v3(chat_id) ==
    /\ replyV3' = IF agentLive THEN "Start, mode LOCAL" ELSE "Start, mode CLOUD"
    /\ UNCHANGED <<user_execution_mode, agentLive, exchangeFile, cloudCalls,
                   githubToken, lastMode, modeSetting, lastStored>>
    /\ UNCHANGED <<botVars, envVars, createVars, startVars>>

\* Mutant: a failed cloud trigger is attempted a second time.
task_command_retries(chat_id, args, http, ioOk) ==
    /\ Len(cloudCalls) < MaxCalls
    /\ IF args = <<>>
       THEN /\ replyV3' = "Usage"
            /\ UNCHANGED <<exchangeFile, cloudCalls, lastMode, lastStored>>
       ELSE LET task_description == Join(args)
                mode == ModeGet(chat_id, detect_execution_mode)
                cloud == trigger_github_actions(chat_id, task_description, http)
                local == trigger_local_execution(task_description, ioOk)
            IN  /\ lastMode' = [chat |-> chat_id, mode |-> mode, live |-> agentLive]
                /\ lastStored' = user_execution_mode[chat_id]
                /\ IF mode = "cloud"
                   THEN /\ cloudCalls' =
                               IF ~cloud.called THEN cloudCalls
                               ELSE IF cloud.success
                                    THEN Append(cloudCalls, cloud.payload)
                                    ELSE Append(Append(cloudCalls, cloud.payload),
                                                cloud.payload)
                        /\ replyV3' = IF cloud.success
                                      THEN "Cloud execution triggered"
                                      ELSE "Failed to trigger cloud execution"
                        /\ UNCHANGED exchangeFile
                   ELSE /\ exchangeFile' = local.file
                        /\ replyV3' = IF local.success
                                      THEN "Task sent to local"
                                      ELSE "Local execution failed"
                        /\ UNCHANGED cloudCalls
    /\ UNCHANGED <<user_execution_mode, agentLive, githubToken, modeSetting>>
    /\ UNCHANGED <<botVars, envVars, createVars, startVars>>

\* Mutant: a failed cloud trigger falls back to the local exchange file.
task_command_falls_back(chat_id, args, http, ioOk) ==
    /\ Len(cloudCalls) < MaxCalls
    /\ IF args = <<>>
       THEN /\ replyV3' = "Usage"
            /\ UNCHANGED <<exchangeFile, cloudCalls, lastMode, lastStored>>
       ELSE LET task_description == Join(args)
                mode == ModeGet(chat_id, detect_execution_mode)
                cloud == trigger_github_actions(chat_id, task_description, http)
                local == trigger_local_execution(task_description, ioOk)
            IN  /\ lastMode' = [chat |-> chat_id, mode |-> mode, live |-> agentLive]
                /\ lastStored' = user_execution_mode[chat_id]
                /\ IF mode = "cloud"
                   THEN /\ cloudCalls' = IF cloud.called
                                         THEN Append(cloudCalls, cloud.payload)
                                         ELSE cloudCalls
                        /\ replyV3' = IF cloud.success
                                      THEN "Cloud execution triggered"
                                      ELSE "Failed to trigger cloud execution"
                        /\ exchangeFile' = IF cloud.success THEN exchangeFile
                                           ELSE local.file
                   ELSE /\ exchangeFile' = local.file
                        /\ replyV3' = IF local.success
                                      THEN "Task sent to local"
                                      ELSE "Local execution failed"
                        /\ UNCHANGED cloudCalls
    /\ UNCHANGED <<user_execution_mode, agentLive, githubToken, modeSetting>>
    /\ UNCHANGED <<botVars, envVars, createVars, startVars>>

\* task_command: join the arguments, resolve the mode, dispatch, reply.
task_command(chat_id, args, http, ioOk) ==
    /\ Len(cloudCalls) < MaxCalls
    /\ IF args = <<>>
       THEN /\ replyV3' = "Usage"
            /\ UNCHANGED <<exchangeFile, cloudCalls, lastMode, lastStored>>
       ELSE LET task_description == Join(args)
                mode == ModeGet(chat_id, detect_execution_mode)
                cloud == trigger_github_actions(chat_id, task_description, http)
                local == trigger_local_execution(task_description, ioOk)
            IN  /\ lastMode' = [chat |-> chat_id, mode |-> mode, live |-> agentLive]
                /\ lastStored' = user_execution_mode[chat_id]
                /\ IF mode = "cloud"
                   THEN /\ cloudCalls' = IF cloud.called
                                         THEN Append(cloudCalls, cloud.payload)
                                         ELSE cloudCalls
                        /\ replyV3' = IF cloud.success
                                      THEN "Cloud execution triggered"
                                      ELSE "Failed to trigger cloud execution"
                        /\ UNCHANGED exchangeFile
                   ELSE /\ exchangeFile' = local.file
                        /\ replyV3' = IF local.success
                                      THEN "Task sent to local"
                                      ELSE "Local execution failed"
                        /\ UNCHANGED cloudCalls
    /\ UNCHANGED <<user_execution_mode, agentLive, githubToken, modeSetting>>
    /\ UNCHANGED <<botVars, envVars, createVars, startVars>>

\* Mutant: the mode is one global, not an entry per chat.
cloud_mode_global(chat_id) ==
    /\ user_execution_mode' = [c \in Chats |-> "cloud"]
    /\ modeSetting' = [modeSetting EXCEPT ![chat_id] = "cloud"]
    /\ replyV3' = "Switched to CLOUD mode"
    /\ UNCHANGED <<agentLive, exchangeFile, cloudCalls, githubToken, lastMode,
                   lastStored>>
    /\ UNCHANGED <<botVars, envVars, createVars, startVars>>

\* cloud_mode: store the override of this chat.
cloud_mode(chat_id) ==
    /\ user_execution_mode' = [user_execution_mode EXCEPT ![chat_id] = "cloud"]
    /\ modeSetting' = [modeSetting EXCEPT ![chat_id] = "cloud"]
    /\ replyV3' = "Switched to CLOUD mode"
    /\ UNCHANGED <<agentLive, exchangeFile, cloudCalls, githubToken, lastMode,
                   lastStored>>
    /\ UNCHANGED <<botVars, envVars, createVars, startVars>>

local_mode(chat_id) ==
    /\ user_execution_mode' = [user_execution_mode EXCEPT ![chat_id] = "local"]
    /\ modeSetting' = [modeSetting EXCEPT ![chat_id] = "local"]
    /\ replyV3' = "Switched to LOCAL mode"
    /\ UNCHANGED <<agentLive, exchangeFile, cloudCalls, githubToken, lastMode,
                   lastStored>>
    /\ UNCHANGED <<botVars, envVars, createVars, startVars>>

\* auto_mode: stores the mode detected now.
auto_mode(chat_id) ==
    /\ user_execution_mode' =
           [user_execution_mode EXCEPT ![chat_id] = detect_execution_mode]
    /\ modeSetting' = [modeSetting EXCEPT ![chat_id] = "auto"]
    /\ replyV3' = "Auto-detect enabled"
    /\ UNCHANGED <<agentLive, exchangeFile, cloudCalls, githubToken, lastMode,
                   lastStored>>
    /\ UNCHANGED <<botVars, envVars, createVars, startVars>>

\* Mutant: the status query stores the mode it resolved.
status_command_stores_mode(chat_id) ==
    /\ replyV3' = "Status, active " \o ModeGet(chat_id, detect_execution_mode)
    /\ user_execution_mode' =
           [user_execution_mode EXCEPT
               ![chat_id] = ModeGet(chat_id, detect_execution_mode)]
    /\ UNCHANGED <<agentLive, exchangeFile, cloudCalls,
                   githubToken, lastMode, modeSetting, lastStored>>
    /\ UNCHANGED <<botVars, envVars, createVars, startVars>>

\* status_command: report the stored setting and the mode resolved now.
status_command(chat_id) ==
    /\ replyV3' = "Status, active " \o ModeGet(chat_id, detect_execution_mode)
    /\ UNCHANGED <<user_execution_mode, agentLive, exchangeFile, cloudCalls,
                   githubToken, lastMode, modeSetting, lastStored>>
    /\ UNCHANGED <<botVars, envVars, createVars, startVars>>

\* The local agent process starts or stops.
SetLive ==
    /\ agentLive' = ~agentLive
    /\ UNCHANGED <<user_execution_mode, exchangeFile, cloudCalls, githubToken,
                   lastMode, replyV3, modeSetting, lastStored>>
    /\ UNCHANGED <<botVars, envVars, createVars, startVars>>

(***************************************************************************)
(* Start-up: the settings read from the environment and the two mains.     *)
(***************************************************************************)
Settings ==
    {"TELEGRAM_BOT_TOKEN", "TELEGRAM_USER_ID", "CLAUDE_STATUS_FILE",
     "CLAUDE_APPROVAL_FILE", "CLAUDE_RESPONSE_FILE", "CLAUDE_TASKS_DIR"}

\* bot.py validate_configuration: the errors it collects.  A path setting
\* that is absent reads as Path(''), whose str is '.'.
validate_configuration == Settings \ config

\* bot.py main: sys.exit(1) on any error, else the handlers are registered
\* and run_polling serves.
main ==
    /\ process = "starting"
    /\ process' = IF validate_configuration = {} THEN "bot" ELSE "exited"
    /\ UNCHANGED <<botVars, envVars, createVars, v3Vars, config>>

\* bot_v3.py main: only TELEGRAM_BOT_TOKEN is tested.
main_v3 ==
    /\ process = "starting"
    /\ process' = IF "TELEGRAM_BOT_TOKEN" \in config THEN "v3" ELSE "exited"
    /\ UNCHANGED <<botVars, envVars, createVars, v3Vars, config>>

\* run_polling of bot.py: the handlers main registered serve the updates.
run_polling ==
    /\ process = "bot"
    /\ \E user \in Users : start(user) \/ ping(user) \/ status(user)

\* run_polling of bot_v3.py.
run_polling_v3 ==
    /\ process = "v3"
    /\ \E chat_id \in Chats :
          \/ start_v3(chat_id)
          \/ cloud_mode(chat_id)
          \/ local_mode(chat_id)
          \/ auto_mode(chat_id)
          \/ status_command(chat_id)

(***************************************************************************)
(* The specifications.                                                     *)
(***************************************************************************)
InitBot ==
    /\ approvalExists = FALSE
    /\ response = "absent"
    /\ tasks = NoTasks
    /\ statusFile = NoStatus
    /\ pc = "idle"
    /\ decision = "none"
    /\ reply = "none"

InitEnv ==
    /\ clock = 1
    /\ gateOwner = 0
    /\ gateResult = "none"
    /\ gateWrites = 0
    /\ faults = 0

NoRequest == [user |-> 1, args |-> <<>>, io |-> "ok", earlier |-> FALSE]

InitNoCreate ==
    /\ req = NoRequest
    /\ served = TRUE

InitV3 ==
    /\ user_execution_mode = [c \in Chats |-> "unset"]
    /\ agentLive = FALSE
    /\ exchangeFile = NoExchange
    /\ cloudCalls = <<>>
    /\ githubToken = TRUE
    /\ lastMode = NoResolution
    /\ replyV3 = "none"
    /\ modeSetting = [c \in Chats |-> "auto"]
    /\ lastStored = "unset"

\* The state after a start-up that passed: every setting is present.
InitStarted(program) ==
    /\ config = Settings
    /\ process = program

\* ---- Spec: bot.py
Init == InitBot /\ InitEnv /\ InitNoCreate /\ InitV3 /\ InitStarted("bot")

Next ==
    \/ \E user \in Users : start(user)
    \/ \E user \in Users : ping(user)
    \/ \E user \in Users : status(user)
    \/ \E user \in Users, args \in SampleArgs, io \in IoOutcomes :
           create_task(user, args, io)
    \/ \E user \in Users : approve(user)
    \/ \E user \in Users : reject(user)
    \/ \E ok \in BOOLEAN : resolve_write(ok)
    \/ \E ok \in BOOLEAN : resolve_unlink(ok)
    \/ \E agent \in Agents : request_approval(agent)
    \/ poll
    \/ Tick

Spec == Init /\ [][Next]_vars

\* ---- SpecV3: bot_v3.py
InitLive ==
    /\ user_execution_mode = [c \in Chats |-> "unset"]
    /\ agentLive \in BOOLEAN
    /\ exchangeFile = NoExchange
    /\ cloudCalls = <<>>
    /\ githubToken \in BOOLEAN
    /\ lastMode = NoResolution
    /\ replyV3 = "none"
    /\ modeSetting = [c \in Chats |-> "auto"]
    /\ lastStored = "unset"

InitBotV3 == InitBot /\ InitEnv /\ InitNoCreate /\ InitLive /\ InitStarted("v3")

NextV3 ==
    \/ \E chat_id \in Chats : start_v3(chat_id)
    \/ \E chat_id \in Chats, args \in V3Args, http \in HttpOutcomes, ioOk \in BOOLEAN :
           task_command(chat_id, args, http, ioOk)
    \/ \E chat_id \in Chats : cloud_mode(chat_id)
    \/ \E chat_id \in Chats : local_mode(chat_id)
    \/ \E chat_id \in Chats : auto_mode(chat_id)
    \/ \E chat_id \in Chats : status_command(chat_id)
    \/ SetLive

SpecV3 == InitBotV3 /\ [][NextV3]_vars

\* ---- SpecCreate: one /task request, drawn from all the argument lists, is
\* served by bot.py on a store that is fresh or holds an earlier task.
EarlierDescription == <<Run("a", 1)>>

PreTasks ==
    IF req.earlier
    THEN [NoTasks EXCEPT ![1] = TaskContent(EarlierDescription)]
    ELSE NoTasks

PreStatus ==
    IF req.earlier THEN StatusContent(EarlierDescription, 1) ELSE NoStatus

InitCreate ==
    /\ req \in [user : Users, args : TaskArgs, io : IoOutcomes, earlier : BOOLEAN]
    /\ served = FALSE
    /\ approvalExists = FALSE
    /\ response = "absent"
    /\ tasks = PreTasks
    /\ statusFile = PreStatus
    /\ pc = "idle"
    /\ decision = "none"
    /\ reply = "none"
    /\ clock \in 1..MaxClock
    /\ gateOwner = 0
    /\ gateResult = "none"
    /\ gateWrites = 0
    /\ faults = 0
    /\ InitV3
    /\ InitStarted("bot")

Serve ==
    /\ ~served
    /\ create_task(req.user, req.args, req.io)

NextCreate == Serve

SpecCreate == InitCreate /\ [][NextCreate]_vars

\* ---- SpecStart: either program is started with any subset of the settings
\* present and, if its main does not exit, serves commands.
InitStart ==
    /\ InitBot /\ InitEnv /\ InitNoCreate /\ InitV3
    /\ config \in SUBSET Settings
    /\ process = "starting"

NextStart ==
    \/ main
    \/ main_v3
    \/ run_polling
    \/ run_polling_v3

SpecStart == InitStart /\ [][NextStart]_vars

\* ---- SpecDispatch: bot_v3.py serving /task alone, with or without the
\* credential, the POST answered in any of the ways of HttpAnswers.
NextDispatch ==
    \/ \E chat_id \in Chats, args \in V3Args, http \in HttpAnswers, ioOk \in BOOLEAN :
           task_command(chat_id, args, http, ioOk)
    \/ SetLive

SpecDispatch == InitBotV3 /\ [][NextDispatch]_vars

\* ---- SpecGate: either program serves its commands on a filesystem where
\* the gate is open or closed and RESPONSE is absent or holds a decision.
InitGate ==
    /\ approvalExists \in BOOLEAN
    /\ response \in {"absent"} \cup ResolutionValues
    /\ tasks = NoTasks
    /\ statusFile = NoStatus
    /\ pc = "idle"
    /\ decision = "none"
    /\ reply = "none"
    /\ InitEnv /\ InitNoCreate /\ InitV3
    /\ config = Settings
    /\ process \in {"bot", "v3"}

\* The handlers bot.py main registers.
serve_bot ==
    /\ process = "bot"
    /\ \/ \E user \in Users :
              start(user) \/ ping(user) \/ status(user) \/ approve(user) \/ reject(user)
       \/ \E user \in Users, args \in SampleArgs, io \in IoOutcomes :
              create_task(user, args, io)
       \/ \E ok \in BOOLEAN : resolve_write(ok) \/ resolve_unlink(ok)

\* The handlers bot_v3.py main registers.
serve_v3 ==
    /\ process = "v3"
    /\ \/ \E chat_id \in Chats :
              \/ start_v3(chat_id)
              \/ cloud_mode(chat_id)
              \/ local_mode(chat_id)
              \/ auto_mode(chat_id)
              \/ status_command(chat_id)
       \/ \E chat_id \in Chats, args \in V3Args, http \in HttpOutcomes,
             ioOk \in BOOLEAN :
              task_command(chat_id, args, http, ioOk)

NextGate ==
    \/ serve_bot
    \/ serve_v3

SpecGate == InitGate /\ [][NextGate]_vars

(***************************************************************************)
(* The claims.                                                             *)
(***************************************************************************)
ValidationErrors ==
    {"Description too long", "Description contains forbidden characters",
     "Path separators not allowed in description"}

\* C1 (as claimed): resolving the gate is atomic to an observer of the two
\* artifacts: in no state is the decision written for the open gate present
\* in RESPONSE while APPROVAL still exists.
C1_ResolveAtomic ==
    ~(approvalExists /\ gateWrites > 0 /\ response \in ResolutionValues)

\* C2 (as claimed): a command from a requester other than the authorised
\* identity changes no state: no task, status, RESPONSE or APPROVAL artifact,
\* no exchange file, no cloud call, no mode entry.
C2_UnauthorizedNoChange ==
    [][\A user \in Users :
          /\ ~is_authorized(user)
          /\ \/ \E args \in SampleArgs, io \in IoOutcomes : create_task(user, args, io)
             \/ approve(user)
             \/ reject(user)
             \/ \E args \in V3Args, http \in HttpOutcomes, ioOk \in BOOLEAN :
                    task_command(user, args, http, ioOk)
             \/ cloud_mode(user)
             \/ local_mode(user)
             \/ auto_mode(user)
          => UNCHANGED <<approvalExists, response, tasks, statusFile,
                         user_execution_mode, exchangeFile, cloudCalls>>]_vars

\* The half of C2 that is about bot.py: its handlers drop the requests of any
\* requester but the authorised one.
BotUnauthorizedNoChange ==
    [][\A user \in Users :
          /\ ~is_authorized(user)
          /\ \/ \E args \in SampleArgs, io \in IoOutcomes : create_task(user, args, io)
             \/ approve(user)
             \/ reject(user)
             \/ ping(user)
             \/ status(user)
          => UNCHANGED <<botVars, envVars>>]_vars

\* C3 (as claimed): whatever was handed to a backend, the exchange file or a
\* cloud payload, passed the sanitisation contract.
C3_SanitizedBeforeDispatch ==
    /\ exchangeFile # NoExchange => sanitize_task_description(exchangeFile).ok
    /\ \A i \in 1..Len(cloudCalls) : sanitize_task_description(cloudCalls[i].task).ok

\* C4: a /task whose description contains '/', '\' or '..' fails with a
\* validation error and writes nothing: the tasks directory and the status
\* artifact are what they were before.
C4_PathSeparatorsWriteNothing ==
    served /\ HasPathSeparator(Join(req.args))
        => /\ tasks = PreTasks
           /\ statusFile = PreStatus
           /\ is_authorized(req.user) => reply \in ValidationErrors

C4_Witness ==
    /\ served
    /\ is_authorized(req.user)
    /\ req.earlier
    /\ ContainsDotDot(Join(req.args))
    /\ MatchesAllowed(Join(req.args))
    /\ reply = "Path separators not allowed in description"

\* The contract of a description, in the claim's words: non-empty, at most
\* MAX_TASK_DESCRIPTION_LENGTH characters, allowed characters only, no path
\* separator.
ValidDescription(d) ==
    /\ d # <<>>
    /\ Length(d) <= MAX_TASK_DESCRIPTION_LENGTH
    /\ \A i \in 1..Len(d) : d[i].ch \in AllowedChars
    /\ ~(Contains(d, "/") \/ Contains(d, "\\") \/ ContainsDotDot(d))

\* C5: creation succeeds exactly for the valid descriptions, and stores them
\* unchanged: a valid one (the writes succeeding) is recorded as given, in
\* the task artifact and the status artifact; any other is refused and
\* nothing is written.  MAX_TASK_DESCRIPTION_LENGTH characters are accepted,
\* one more is refused.
C5_CreateExactlyValid ==
    served /\ is_authorized(req.user) =>
        LET d == Join(req.args) IN
        IF ValidDescription(d)
        THEN req.io = "ok" =>
                 /\ reply = "Task Created"
                 /\ tasks[clock] = TaskContent(d)
                 /\ statusFile = StatusContent(d, clock)
        ELSE /\ reply \in ValidationErrors \cup {"Usage"}
             /\ tasks = PreTasks
             /\ statusFile = PreStatus
             /\ Length(d) = MAX_TASK_DESCRIPTION_LENGTH + 1 => reply \in ValidationErrors

C5_Witness ==
    /\ served
    /\ is_authorized(req.user)
    /\ Length(Join(req.args)) = MAX_TASK_DESCRIPTION_LENGTH
    /\ Len(req.args) > 1
    /\ reply = "Task Created"
    /\ tasks[clock].description = Join(req.args)

C7_ResolvedAtMostOnce == gateWrites <= 1

\* C8: a resolution is written only for an open gate.  An approve or reject
\* of the authorised requester with no APPROVAL artifact leaves RESPONSE,
\* APPROVAL, the task artifacts and the status artifact as they are, says
\* that nothing is pending and ends there; and RESPONSE is never written
\* while APPROVAL is absent.
C8_NoGateNoResolution ==
    [][/\ \A user \in Users :
              /\ is_authorized(user)
              /\ ~approvalExists
              /\ approve(user) \/ reject(user)
              => /\ reply' = "No pending approvals"
                 /\ pc' = "idle"
                 /\ UNCHANGED <<response, approvalExists, tasks, statusFile>>
       /\ response' # response /\ response' \in ResolutionValues => approvalExists
      ]_vars

C8_Witness ==
    /\ reply = "No pending approvals"
    /\ ~approvalExists
    /\ response = "APPROVED"
    /\ statusFile # NoStatus

\* C9 (as claimed): while a gate is open and not yet resolved, no resolution
\* value is in RESPONSE, the previous gate's decision included.
C9_OpenGateHasNoResolution ==
    approvalExists /\ gateWrites = 0 => response \notin ResolutionValues

\* C10: an override pins the backend.  A task of a chat whose stored mode is
\* local or cloud resolves to that mode whatever the liveness of the agent,
\* and leaves the stored mode alone; the stored mode of a chat changes only
\* by that chat's own mode commands.
C10_OverridePinsBackend ==
    [][/\ \A chat_id \in Chats :
              /\ user_execution_mode[chat_id] # "unset"
              /\ \E args \in V3Args \ {<<>>}, http \in HttpOutcomes, ioOk \in BOOLEAN :
                     task_command(chat_id, args, http, ioOk)
              => /\ lastMode'.chat = chat_id
                 /\ lastMode'.mode = user_execution_mode[chat_id]
                 /\ user_execution_mode' = user_execution_mode
                 /\ IF user_execution_mode[chat_id] = "local"
                    THEN /\ replyV3' \in {"Task sent to local", "Local execution failed"}
                         /\ cloudCalls' = cloudCalls
                    ELSE /\ replyV3' \in {"Cloud execution triggered",
                                          "Failed to trigger cloud execution"}
                         /\ exchangeFile' = exchangeFile
       /\ \A chat_id \in Chats :
              user_execution_mode'[chat_id] # user_execution_mode[chat_id]
              => cloud_mode(chat_id) \/ local_mode(chat_id) \/ auto_mode(chat_id)
      ]_vars

C10_Witness ==
    /\ user_execution_mode[1] = "local"
    /\ lastMode = [chat |-> 1, mode |-> "local", live |-> FALSE]
    /\ replyV3 = "Task sent to local"
    /\ ~agentLive

\* The argument lists of bot_v3 that carry a task.
V3TaskArgs == V3Args \ {<<>>}

\* C11 (as claimed): for a chat whose mode is auto, never set or selected
\* with /auto, every resolution (a task or a status query) returns local if
\* and only if the agent process is live at that moment.
C11_AutoTracksLiveness ==
    [][\A chat_id \in Chats :
          modeSetting[chat_id] = "auto" =>
              /\ (\E args \in V3TaskArgs, http \in HttpOutcomes, ioOk \in BOOLEAN :
                      task_command(chat_id, args, http, ioOk))
                  => lastMode'.mode = detect_execution_mode
              /\ status_command(chat_id)
                  => replyV3' = "Status, active " \o detect_execution_mode]_vars

\* C12: a resolution is a pure read.  A task or a status query leaves the
\* mode map as it was, and a task resolved for the chat of the last
\* resolution, with the same stored mode and the same liveness as then,
\* gets the same backend, which a status query reports too.
C12_ResolutionIsPureRead ==
    [][\A chat_id \in Chats :
          /\ \/ UNCHANGED user_execution_mode
             \/ ~(\/ \E args \in V3Args, http \in HttpOutcomes, ioOk \in BOOLEAN :
                        task_command(chat_id, args, http, ioOk)
                  \/ status_command(chat_id))
          /\ /\ lastMode.chat = chat_id
             /\ lastMode.live = agentLive
             /\ lastStored = user_execution_mode[chat_id]
             => /\ \/ lastMode'.mode = lastMode.mode
                   \/ ~\E args \in V3TaskArgs, http \in HttpOutcomes,
                          ioOk \in BOOLEAN :
                          task_command(chat_id, args, http, ioOk)
                /\ \/ replyV3' = "Status, active " \o lastMode.mode
                   \/ ~status_command(chat_id)]_vars

\* Chat 1, with no stored mode, had a task resolved to local and written to
\* the exchange file, and its status query then reported local too.
C12_Witness ==
    /\ lastMode = [chat |-> 1, mode |-> "local", live |-> TRUE]
    /\ lastStored = "unset"
    /\ user_execution_mode[1] = "unset"
    /\ agentLive
    /\ exchangeFile # NoExchange
    /\ replyV3 = "Status, active local"

\* C13 (as claimed): after a dispatch that failed, which the requester is told
\* in the same request, the status recorded for the task is failed.
C13_FailedDispatchRecorded ==
    replyV3 \in {"Failed to trigger cloud execution", "Local execution failed"}
    => \E file \in FileNames : tasks[file].status = "failed"

\* C14: no automatic retry.  The cloud calls and the exchange file change in
\* a task request alone, and one request makes one submission at most: one
\* cloud call with its payload or one write of the exchange file, never both
\* and never two, whether the submission succeeds or fails.
C14_NoRetry ==
    [][(cloudCalls' # cloudCalls \/ exchangeFile' # exchangeFile) =>
          \E chat_id \in Chats, args \in V3TaskArgs, http \in HttpOutcomes,
             ioOk \in BOOLEAN :
              /\ task_command(chat_id, args, http, ioOk)
              /\ \/ /\ cloudCalls' = Append(cloudCalls,
                                             [task |-> Join(args),
                                              chat_id |-> Str(chat_id)])
                    /\ exchangeFile' = exchangeFile
                 \/ /\ cloudCalls' = cloudCalls
                    /\ exchangeFile' = Join(args)]_vars

\* A cloud trigger failed after its one call; nothing else was submitted.
C14_Witness ==
    /\ replyV3 = "Failed to trigger cloud execution"
    /\ Len(cloudCalls) = 1
    /\ exchangeFile = NoExchange

\* C15 (as claimed): once the operator's decision is taken, a task of the
\* store carries it: approved after approve, rejected after reject.
C15_DecisionReconciled ==
    (\E file \in FileNames : tasks[file] # NoFile) =>
        /\ reply = "APPROVED"
           => \E file \in FileNames : tasks[file].status = "approved"
        /\ reply = "REJECTED"
           => \E file \in FileNames : tasks[file].status = "rejected"

\* C16: the status artifact describes the task created last.  It changes
\* only in a step that replies "Task Created"; a step that replies "Task
\* Created" and writes anything leaves the file of the current timestamp in
\* the store and the status artifact naming that file and its description;
\* so a /task that fails, at validation or at either write, leaves the
\* status artifact as it was.  The file the artifact names is in the store.
C16_StatusDescribesLastCreated ==
    [][/\ statusFile' # statusFile => reply' = "Task Created"
       /\ /\ reply' = "Task Created"
          /\ reply' # reply \/ tasks' # tasks \/ statusFile' # statusFile
          => /\ tasks'[clock] # NoFile
             /\ statusFile' = StatusContent(tasks'[clock].description, clock)
       /\ statusFile' # NoStatus => tasks'[statusFile'.file] # NoFile
      ]_vars

\* Task "a" was created in file 1; a later /task wrote file 2 and failed at
\* the status write: the status artifact still describes task "a".
C16_Witness ==
    /\ statusFile = StatusContent(<<Run("a", 1)>>, 1)
    /\ tasks[1] = TaskContent(<<Run("a", 1)>>)
    /\ tasks[2] # NoFile
    /\ reply = GenericError
    /\ pc = "idle"

\* C17 (as claimed): two successful creations get distinct ids: a /task that
\* ends in "Task Created" does not write the file of the creation before it.
C17_DistinctTaskIds ==
    [][\A user \in Users, args \in SampleArgs, io \in IoOutcomes :
          /\ create_task(user, args, io)
          /\ is_authorized(user)
          /\ reply' = "Task Created"
          => ~(statusFile # NoStatus /\ statusFile.file = clock)]_vars

\* C18 (as claimed): a process serves, and a handler of it has replied, only
\* if the bot credential, the authorised identity and the STATUS, APPROVAL
\* and RESPONSE paths were all present at start-up.
C18_FailFast ==
    (process \in {"bot", "v3"} \/ reply # "none" \/ replyV3 # "none")
    => {"TELEGRAM_BOT_TOKEN", "TELEGRAM_USER_ID", "CLAUDE_STATUS_FILE",
        "CLAUDE_APPROVAL_FILE", "CLAUDE_RESPONSE_FILE"} \subseteq config

\* bot.py alone is fail-fast: its process serves only with every setting,
\* CLAUDE_TASKS_DIR included, present.
BotFailFast ==
    (process = "bot" \/ reply # "none") => config = Settings

C20_OnlyResolvedBackend ==
    [][\A chat_id \in Chats :
          \/ /\ lastMode'.mode = ModeGet(chat_id, detect_execution_mode)
             /\ lastMode'.mode = "cloud" =>
                    /\ exchangeFile' = exchangeFile
                    /\ replyV3' \in {"Cloud execution triggered",
                                     "Failed to trigger cloud execution"}
             /\ lastMode'.mode # "cloud" =>
                    /\ cloudCalls' = cloudCalls
                    /\ replyV3' \in {"Task sent to local",
                                     "Local execution failed"}
             /\ user_execution_mode' = user_execution_mode
          \/ ~\E args \in V3TaskArgs, http \in HttpOutcomes, ioOk \in BOOLEAN :
                 task_command(chat_id, args, http, ioOk)]_vars

\* A task resolved to cloud failed while the local agent was live: the
\* exchange file was not written and the chat's mode is still cloud.
C20_Witness ==
    /\ lastMode = [chat |-> 1, mode |-> "cloud", live |-> TRUE]
    /\ replyV3 = "Failed to trigger cloud execution"
    /\ agentLive
    /\ exchangeFile = NoExchange
    /\ user_execution_mode[1] = "cloud"

\* C21: a task resolved to cloud is reported as triggered if and only if the
\* credential is set and the POST was answered with status 204; any other
\* status, an exception or a missing credential is reported as a failure,
\* and without the credential no call is made.
C21_CloudSuccessIff204 ==
    [][\A chat_id \in Chats, args \in V3TaskArgs, http \in HttpAnswers,
         ioOk \in BOOLEAN :
          \/ ModeGet(chat_id, detect_execution_mode) # "cloud"
          \/ /\ replyV3' \in {"Cloud execution triggered",
                               "Failed to trigger cloud execution"}
             /\ replyV3' = "Cloud execution triggered"
                    <=> /\ githubToken
                        /\ http # "exception"
                        /\ StatusCode(http) = HTTP_NO_CONTENT
             /\ ~githubToken => cloudCalls' = cloudCalls
          \/ ~task_command(chat_id, args, http, ioOk)]_vars

\* Without the credential a task resolved to cloud failed and no call was
\* made.
C21_Witness ==
    /\ ~githubToken
    /\ lastMode.mode = "cloud"
    /\ replyV3 = "Failed to trigger cloud execution"
    /\ cloudCalls = <<>>

\* C22: only a resolution touches the gate.  APPROVAL and RESPONSE change
\* in no step of either program but the write and the unlink of a running
\* approve or reject, and an open gate is closed by that unlink alone: task
\* creation, status query, ping, start, mode changes and task dispatch leave
\* both artifacts as they are.
C22_OnlyResolutionTouchesGate ==
    [][/\ approvalExists' # approvalExists \/ response' # response
          => \E ok \in BOOLEAN : resolve_write(ok) \/ resolve_unlink(ok)
       /\ approvalExists /\ ~approvalExists' => resolve_unlink(TRUE)
       /\ process = "v3" => UNCHANGED <<approvalExists, response>>
      ]_vars

\* A task was created and the status queried while the gate was open: the
\* gate is still open and RESPONSE still absent.
C22_Witness ==
    /\ approvalExists
    /\ response = "absent"
    /\ statusFile # NoStatus
    /\ reply = "Status, APPROVAL PENDING"
    /\ pc = "idle"

\* C23: the decision is recorded before the gate is closed.  The step that
\* removes APPROVAL is the unlink of a running approve or reject, and
\* RESPONSE holds that handler's decision before and after it; a write of
\* RESPONSE that fails ends the handler with APPROVAL and RESPONSE as they
\* were, so the gate stays open.
C23_DecisionRecordedBeforeClose ==
    [][/\ approvalExists /\ ~approvalExists'
          => /\ pc = "unlink"
             /\ decision \in ResolutionValues
             /\ response = decision
             /\ response' = decision
       /\ resolve_write(FALSE)
          => /\ pc' = "idle"
             /\ UNCHANGED <<approvalExists, response>>
      ]_vars

\* A first write of RESPONSE failed and left the gate open; a later approve
\* wrote its decision, once, and then closed the gate.
C23_Witness ==
    /\ ~approvalExists
    /\ response = "APPROVED"
    /\ reply = "APPROVED"
    /\ faults = 1
    /\ gateWrites = 1
    /\ pc = "idle"

=============================================================================
